---- MODULE Spec2Model ----
(***************************************************************************)
(* Pending-notification dispatch engine of the Moonly backend:             *)
(* NotificationsService (process_pending_notifications,                    *)
(* send_test_notification, get_notifications_history) over the             *)
(* notifications_log and user_settings tables and the FCM gateway.         *)
(***************************************************************************)
EXTENDS Bags, FiniteSets, Integers, Sequences, TLC

(* ------------------------------ bounds -------------------------------- *)

\* Number of notifications_log rows ever inserted in a behaviour.
MaxRecords == 2

\* Number of Store faults (a raising supabase call) in a behaviour.
MaxFaults == 1

\* Number of pending rows in an initial Store of SpecBatch and SpecCeiling.
MaxBatch == 3

\* The fetch ceiling scaled to the bounded Store: SpecCeiling runs the
\* dispatcher with .limit(Ceiling) so that more rows are pending than one
\* run may fetch.
Ceiling == 2

\* SpecHistory: rows of the queried user (a few, or many) and of another
\* user in the Store, and the pages and page sizes requested.
MaxFewHist == 2
MaxHist == 25
MaxOther == 1
MaxPage == 2
MaxPageSize == 1

\* Number of rows ever inserted in a behaviour of SpecTest and SpecOverlap.
MaxTestRecords == 2
MaxOverlapRecords == 1

\* Rows in the log when the dispatcher, the test dispatch and the history
\* query run side by side, and the page sizes asked for there.
MaxEngineRecords == 1
MaxEnginePageSize == 1

\* SpecFrame: the rows in the log when the dispatcher, the test dispatch and
\* the history query start.
MaxFrameRecords == 2

\* The pending rows of one user in a batch during which that user's token
\* changes.
MaxTokenRows == 2

\* The longest token list handed to send_multicast_notification.
MaxTokens == 3

\* The pending rows when the scheduler calls the dispatcher for ever.
MaxLiveRecords == 2

\* SpecPeriod: the dates that add_period_day and add_period_days_batch are
\* called with.
MaxDates == 1

(* ------------------------- program constants -------------------------- *)

\* .limit(100) of the unsent query.
FETCH_LIMIT == 100

\* The user ids.
Users == {"A", "B", "C"}

\* The accounts that exist when the service starts.
Registered == {"A", "B"}

\* The token of a user's device.
Device(u) == CASE u = "A" -> "tA" [] u = "B" -> "tB" [] OTHER -> "tC"

\* The dispatcher invocations that may be in progress at the same time.
Workers == {1, 2}

\* Python's None, and a present value.
None == <<>>
Some(x) == <<x>>

\* Python truthiness of an Optional[str]: None and "" are falsy.
Falsy(v) == v = None \/ v = Some("")

Min(a, b) == IF a <= b THEN a ELSE b

(* ------------------------------- state -------------------------------- *)

VARIABLES
    log,          \* notifications_log: id -> row
    nextId,       \* the next row id the Store hands out
    reg,          \* user_settings: user_id -> fcm_token (Optional); no entry = no row
    clock,        \* the time: what datetime.now() returns when it is read
    gw,           \* the gateway's accepted messages: bag of <<notification_id, token>>
    faults,       \* Store faults so far
    pc,           \* per invocation: "idle", "resolve", "send", "mark", "done"
    todo,         \* per invocation: the fetched rows not yet handled (head = current)
    fetched,      \* per invocation: len(notifications_response.data)
    sent_count,   \* per invocation
    failed_count, \* per invocation
    fcm_token,    \* per invocation: the token resolved for the current row
    stamp,        \* per invocation: datetime.now() as read for the update of the current row
    calls,        \* per invocation: Store lookups, gateway sends, Store writes made
    result,       \* per invocation: the response of process_pending_notifications
    test,         \* the last response of send_test_notification
    test_call,    \* per user: the send_test_notification call in progress
    history,      \* the response of get_notifications_history
    multicast,    \* a call of send_multicast_notification and what it returned
    request,      \* the page and page_size query parameters of the last GET /history
    period_days,  \* the period_days table, in the order of insertion
    period_id_seq,\* the id the table gives the next row inserted
    period_unique,\* whether the table rejects a second row of a (user_id, period_date)
    period_call,  \* per request: the add_period_day / add_period_days_batch call
    period_last   \* <<user_id, period_date>> -> is_period_day of the call that returned last

vars == <<log, nextId, reg, clock, gw, faults, pc, todo, fetched, sent_count,
          failed_count, fcm_token, stamp, calls, result, test, test_call, history,
          multicast, request, period_days, period_id_seq, period_unique, period_call,
          period_last>>

storeVars == <<log, nextId, reg, clock, gw, faults>>
respVars == <<test, test_call, history, multicast, request>>
runVars == <<pc, todo, fetched, sent_count, failed_count, fcm_token, stamp, calls,
             result>>
cycleVars == <<period_days, period_id_seq, period_unique, period_call, period_last>>

NoCalls == [lookups |-> 0, sends |-> 0, writes |-> 0]

NoResult == [status |-> "none", processed |-> 0, sent |-> 0, failed |-> 0,
             message |-> ""]

\* DatabaseException: HTTP 500.
ServerError == [status |-> "error", processed |-> 0, sent |-> 0, failed |-> 0,
                message |-> "DatabaseException"]

Summary(p, s, f, m) == [status |-> "ok", processed |-> p, sent |-> s,
                        failed |-> f, message |-> m]

NoHistory == [status |-> "none", detail |-> "", user_id |-> "",
              notifications |-> <<>>, total |-> 0, page |-> 0, page_size |-> 0,
              store_queries |-> 0]

NoRequest == <<None, None>>

NoTest == [user_id |-> "", status |-> "none", success |-> FALSE, sends |-> 0]

\* No send_test_notification call in progress for a user.
NoTestCall == [pc |-> "idle", fcm_token |-> None, success |-> FALSE,
               sent_at |-> None]

\* The send_test_notification calls that have looked up a token and have not
\* yet inserted their row.
TestCallsInProgress == {u \in Users : test_call[u].pc /= "idle"}

NoMulticast == [status |-> "none", tokens |-> <<>>,
                outcome |-> [raised |-> FALSE, responses |-> <<>>],
                success_count |-> 0, failure_count |-> 0]

Rows == {log[i] : i \in DOMAIN log}

\* .eq("is_sent", False)
UnsentUnfiltered == Rows
Unsent == {r \in Rows : ~r.is_sent}

\* The answers the Store may give to select().eq("is_sent", False).limit(lim):
\* Min(lim, number of unsent rows) distinct unsent rows, in any order.
ListUnsentUnlimited(lim) ==
    LET k == Cardinality(Unsent)
    IN  {s \in [1..k -> Unsent] : \A i, j \in 1..k : i /= j => s[i] /= s[j]}
ListUnsent(lim) ==
    LET k == Min(lim, Cardinality(Unsent))
    IN  {s \in [1..k -> Unsent] : \A i, j \in 1..k : i /= j => s[i] /= s[j]}

\* The service over a Store holding the rows l and the registrations r, with
\* the multicast call m.
InitNotifications(l, r, m) ==
    /\ log = l
    /\ nextId = Len(l) + 1
    /\ reg = r
    /\ clock = 1
    /\ gw = EmptyBag
    /\ faults = 0
    /\ pc = [p \in Workers |-> "idle"]
    /\ todo = [p \in Workers |-> <<>>]
    /\ fetched = [p \in Workers |-> 0]
    /\ sent_count = [p \in Workers |-> 0]
    /\ failed_count = [p \in Workers |-> 0]
    /\ fcm_token = [p \in Workers |-> None]
    /\ stamp = [p \in Workers |-> None]
    /\ calls = [p \in Workers |-> NoCalls]
    /\ result = [p \in Workers |-> NoResult]
    /\ test = NoTest
    /\ test_call = [u \in Users |-> NoTestCall]
    /\ history = NoHistory
    /\ multicast = m
    /\ request = NoRequest

\* No add_period_day call made yet.
NoPeriodCall == [pc |-> "idle", batch |-> FALSE, user_id |-> "", dates |-> <<>>,
                 is_period_day |-> FALSE, existing |-> None, results |-> <<>>,
                 status |-> "none"]

\* The period_days table empty; unique says whether the table has a unique
\* key on (user_id, period_date).
InitPeriodDays(unique) ==
    /\ period_days = <<>>
    /\ period_id_seq = 1
    /\ period_unique = unique
    /\ period_call = [p \in Workers |-> NoPeriodCall]
    /\ period_last = <<>>

InitService(l, r, m) == InitNotifications(l, r, m) /\ InitPeriodDays(FALSE)

InitStore(l, r) == InitService(l, r, NoMulticast)

\* An empty log; the accounts exist and no device is registered yet.
Init == InitStore(<<>>, [u \in Registered |-> None])

(* ------------------- process_pending_notifications -------------------- *)

\* except Exception -> raise DatabaseException: the run ends with a 500 and
\* whatever it wrote before stays written.
AbortSwallowed(p) ==
    /\ pc' = [pc EXCEPT ![p] = "done"]
    /\ result' = [result EXCEPT ![p] =
                     Summary(fetched[p], sent_count[p], failed_count[p] + 1, "procesadas")]
Abort(p) ==
    /\ pc' = [pc EXCEPT ![p] = "done"]
    /\ result' = [result EXCEPT ![p] = ServerError]

\* A Store call that raises (connection, timeout, API error).
StoreFault ==
    /\ faults < MaxFaults
    /\ faults' = faults + 1

\* failed_count += 1 (lines 96 and 124).
CountFailedForgotten(n) == n
CountFailed(n) == n + 1

\* The end of one loop iteration with the counters s (sent) and f (failed):
\* the next row, or the summary after the last one.
AdvanceSkipping(p, s, f) ==
    LET rest == IF Len(todo[p]) >= 2 THEN Tail(Tail(todo[p])) ELSE <<>>
    IN  /\ sent_count' = [sent_count EXCEPT ![p] = s]
        /\ failed_count' = [failed_count EXCEPT ![p] = f]
        /\ todo' = [todo EXCEPT ![p] = rest]
        /\ fcm_token' = [fcm_token EXCEPT ![p] = None]
        /\ stamp' = [stamp EXCEPT ![p] = None]
        /\ IF rest = <<>>
           THEN /\ pc' = [pc EXCEPT ![p] = "done"]
                /\ result' = [result EXCEPT ![p] =
                                 Summary(fetched[p], s, f, "procesadas")]
           ELSE /\ pc' = [pc EXCEPT ![p] = "resolve"]
                /\ UNCHANGED result
Advance(p, s, f) ==
    /\ sent_count' = [sent_count EXCEPT ![p] = s]
    /\ failed_count' = [failed_count EXCEPT ![p] = f]
    /\ todo' = [todo EXCEPT ![p] = Tail(todo[p])]
    /\ fcm_token' = [fcm_token EXCEPT ![p] = None]
    /\ stamp' = [stamp EXCEPT ![p] = None]
    /\ IF Tail(todo[p]) = <<>>
       THEN /\ pc' = [pc EXCEPT ![p] = "done"]
            /\ result' = [result EXCEPT ![p] = Summary(fetched[p], s, f, "procesadas")]
       ELSE /\ pc' = [pc EXCEPT ![p] = "resolve"]
            /\ UNCHANGED result

\* Lines 81-82: sent_count = 0 and failed_count = 0, whatever an earlier
\* invocation counted.
CarriedCount(previous) == previous
InitialCount(previous) == 0

\* Lines 67-82: the unsent query, the empty answer, the counters.
Fetch(p, lim) ==
    /\ pc[p] \in {"idle", "done"}
    /\ sent_count' = [sent_count EXCEPT ![p] = InitialCount(sent_count[p])]
    /\ failed_count' = [failed_count EXCEPT ![p] = InitialCount(failed_count[p])]
    /\ fcm_token' = [fcm_token EXCEPT ![p] = None]
    /\ stamp' = [stamp EXCEPT ![p] = None]
    /\ calls' = [calls EXCEPT ![p] = NoCalls]
    /\ \/ /\ StoreFault
          /\ Abort(p)
          /\ todo' = [todo EXCEPT ![p] = <<>>]
          /\ fetched' = [fetched EXCEPT ![p] = 0]
          /\ UNCHANGED <<log, nextId, reg, clock, gw, respVars, cycleVars>>
       \/ /\ Unsent = {}
          /\ pc' = [pc EXCEPT ![p] = "done"]
          /\ result' = [result EXCEPT ![p] = Summary(0, 0, 0, "no hay pendientes")]
          /\ todo' = [todo EXCEPT ![p] = <<>>]
          /\ fetched' = [fetched EXCEPT ![p] = 0]
          /\ UNCHANGED <<storeVars, respVars, cycleVars>>
       \/ /\ Unsent /= {}
          /\ \E data \in ListUnsent(lim) :
                /\ todo' = [todo EXCEPT ![p] = data]
                /\ fetched' = [fetched EXCEPT ![p] = Len(data)]
          /\ pc' = [pc EXCEPT ![p] = "resolve"]
          /\ result' = [result EXCEPT ![p] = NoResult]
          /\ UNCHANGED <<storeVars, respVars, cycleVars>>

\* Lines 88-92: the token as stored when the lookup is made.
LookupTokenOfFirstDevice(user_id) == Some(Device(user_id))
LookupTokenMissing(user_id) == None
LookupToken(user_id) == reg[user_id]

\* Lines 84-99: the token lookup for the current row.
Resolve(p) ==
    /\ pc[p] = "resolve"
    /\ LET user_id == Head(todo[p]).user_id IN
       /\ calls' = [calls EXCEPT ![p].lookups = @ + 1]
       /\ \/ /\ StoreFault
             /\ Abort(p)
             /\ UNCHANGED <<log, nextId, reg, clock, gw, todo, fetched, sent_count,
                            failed_count, fcm_token, stamp, respVars, cycleVars>>
          \/ \* no user_settings row: .single() raises on zero rows
             /\ user_id \notin DOMAIN reg
             /\ Abort(p)
             /\ UNCHANGED <<storeVars, todo, fetched, sent_count, failed_count,
                            fcm_token, stamp, respVars, cycleVars>>
          \/ \* no user_settings row, answered with empty data
             /\ user_id \notin DOMAIN reg
             /\ Advance(p, sent_count[p], CountFailed(failed_count[p]))
             /\ UNCHANGED <<storeVars, fetched, respVars, cycleVars>>
          \/ /\ user_id \in DOMAIN reg
             /\ Falsy(LookupToken(user_id))
             /\ Advance(p, sent_count[p], CountFailed(failed_count[p]))
             /\ UNCHANGED <<storeVars, fetched, respVars, cycleVars>>
          \/ /\ user_id \in DOMAIN reg
             /\ ~Falsy(LookupToken(user_id))
             /\ fcm_token' = [fcm_token EXCEPT ![p] = LookupToken(user_id)]
             /\ pc' = [pc EXCEPT ![p] = "send"]
             /\ UNCHANGED <<storeVars, todo, fetched, sent_count, failed_count,
                            stamp, result, respVars, cycleVars>>

\* What messaging.send does with a message: it returns a message id, or it
\* raises (a ValueError for a malformed token, a FirebaseError for a transport
\* error or a rejection by the gateway, or anything else).
GatewayOutcomes ==
    {"accepted", "malformed_token", "transport_error", "rejected", "unexpected"}

\* send_push_notification, lines 53-74: True when messaging.send returned,
\* False from both except clauses.
SendPushReturnsAlways(outcome) == TRUE
SendPushReturns(outcome) == outcome = "accepted"

\* The gateway keeps what it accepted.
SendPush(token, notification_id, outcome) ==
    gw' = IF outcome = "accepted"
          THEN gw (+) SetToBag({<<notification_id, token>>})
          ELSE gw

\* datetime.now() is read: time goes on, and a later reading is a later time.
Tick == clock' = clock + 1

\* Lines 101-118 and 123-124: the push and the failure branch. After a push
\* that returned True the update is built, with datetime.now() as read then
\* (line 117), before the Store is called.
Send(p) ==
    /\ pc[p] = "send"
    /\ calls' = [calls EXCEPT ![p].sends = @ + 1]
    /\ \E outcome \in GatewayOutcomes :
          /\ SendPush(fcm_token[p][1], Head(todo[p]).id, outcome)
          /\ IF SendPushReturns(outcome)
             THEN /\ pc' = [pc EXCEPT ![p] = "mark"]
                  /\ stamp' = [stamp EXCEPT ![p] = Some(clock)]
                  /\ Tick
                  /\ UNCHANGED <<todo, sent_count, failed_count, fcm_token, result>>
             ELSE /\ Advance(p, sent_count[p], CountFailed(failed_count[p]))
                  /\ UNCHANGED clock
    /\ UNCHANGED <<log, nextId, reg, faults, fetched, respVars, cycleVars>>

\* update({...}).eq("id", id): the row with that id, when there is one.
MarkSentNoStamp(id, sent_at, token) ==
    IF id \in DOMAIN log
    THEN [log EXCEPT ![id].is_sent = TRUE, ![id].fcm_token = token]
    ELSE log
MarkSentToggle(id, sent_at, token) ==
    IF id \in DOMAIN log
    THEN [log EXCEPT ![id].is_sent = ~@,
                     ![id].sent_at = Some(sent_at),
                     ![id].fcm_token = token]
    ELSE log
MarkSentEveryRow(id, sent_at, token) ==
    [i \in DOMAIN log |-> [log[i] EXCEPT !.is_sent = TRUE,
                                         !.sent_at = Some(sent_at),
                                         !.fcm_token = token]]
MarkSent(id, sent_at, token) ==
    IF id \in DOMAIN log
    THEN [log EXCEPT ![id].is_sent = TRUE,
                     ![id].sent_at = Some(sent_at),
                     ![id].fcm_token = token]
    ELSE log

\* Lines 113-122: the Store call of the status write, with the sent_at built
\* before the call.
Mark(p) ==
    /\ pc[p] = "mark"
    /\ \/ /\ StoreFault
          /\ Abort(p)
          /\ UNCHANGED <<log, nextId, reg, clock, gw, todo, fetched, sent_count,
                         failed_count, fcm_token, stamp, calls, respVars, cycleVars>>
       \/ /\ log' = MarkSent(Head(todo[p]).id, stamp[p][1], fcm_token[p])
          /\ calls' = [calls EXCEPT ![p].writes = @ + 1]
          /\ Advance(p, sent_count[p] + 1, failed_count[p])
          /\ UNCHANGED <<nextId, reg, clock, gw, faults, fetched, respVars, cycleVars>>

(* --------------------------- the environment --------------------------- *)

\* The reminder producer inserts a pending row for a registered user; cap
\* bounds the rows ever inserted, the rows of the test calls in progress
\* counted in.
NewRowAlwaysSent(id, user_id, type, is_sent, sent_at, token) ==
    [id |-> id, user_id |-> user_id, notification_type |-> type,
     title |-> "T", message |-> "M", is_sent |-> TRUE, sent_at |-> sent_at,
     fcm_token |-> token, created_at |-> id]
NewRow(id, user_id, type, is_sent, sent_at, token) ==
    [id |-> id, user_id |-> user_id, notification_type |-> type,
     title |-> "T", message |-> "M", is_sent |-> is_sent, sent_at |-> sent_at,
     fcm_token |-> token, created_at |-> id]

CreateNotification(u, cap) ==
    /\ nextId + Cardinality(TestCallsInProgress) <= cap
    /\ u \in DOMAIN reg
    /\ log' = (nextId :> NewRow(nextId, u, "anticonceptivo", FALSE, None, None)) @@ log
    /\ nextId' = nextId + 1
    /\ UNCHANGED <<reg, clock, gw, faults, runVars, respVars, cycleVars>>

\* ProfileService.update_fcm_token: the row of the user gets the token; with
\* no row the update changes nothing and the call raises.
UpdateFcmToken(u, t) ==
    /\ reg' = IF u \in DOMAIN reg THEN [reg EXCEPT ![u] = Some(t)] ELSE reg
    /\ UNCHANGED <<log, nextId, clock, gw, faults, runVars, respVars, cycleVars>>

\* ProfileService.update_settings with fcm_token = None clears the token;
\* with no row the update changes nothing and the call raises.
ClearFcmToken(u) ==
    /\ reg' = IF u \in DOMAIN reg THEN [reg EXCEPT ![u] = None] ELSE reg
    /\ UNCHANGED <<log, nextId, clock, gw, faults, runVars, respVars, cycleVars>>

\* ProfileService.delete_account (lines 145-150): the one call the code makes
\* is auth.admin.delete_user. What happens to the user's rows is decided by
\* the foreign keys of the database, which are not part of the sources: with
\* ON DELETE CASCADE (the comment at line 147) the rows of user_settings,
\* notifications_log and period_days go with the user; without it no table
\* of the service changes. Both outcomes are allowed, whether or not the
\* user has a user_settings row.
DeleteAccount(u) ==
    \/ /\ reg' = [v \in DOMAIN reg \ {u} |-> reg[v]]
       /\ log' = [i \in {j \in DOMAIN log : log[j].user_id /= u} |-> log[i]]
       /\ period_days' = SelectSeq(period_days, LAMBDA row : row.user_id /= u)
       /\ period_last' = [key \in {k \in DOMAIN period_last : k[1] /= u} |->
                              period_last[key]]
       /\ UNCHANGED <<nextId, clock, gw, faults, runVars, respVars,
                      period_id_seq, period_unique, period_call>>
    \/ UNCHANGED vars

(* ------------------------ send_test_notification ----------------------- *)

\* The response, and the gateway sends the call made.
TestResponse(u, st, ok, n) ==
    [user_id |-> u, status |-> st, success |-> ok, sends |-> n]

\* Lines 150-164: the token lookup; the call ends here when the lookup
\* raises or finds no token.
TestLookup(u, cap) ==
    /\ test_call[u].pc = "idle"
    /\ \/ /\ StoreFault
          /\ test' = TestResponse(u, "error", FALSE, 0)
          /\ UNCHANGED <<log, nextId, reg, clock, gw, test_call>>
       \/ /\ u \notin DOMAIN reg
          /\ test' = TestResponse(u, "error", FALSE, 0)
          /\ UNCHANGED <<storeVars, test_call>>
       \/ /\ IF u \in DOMAIN reg THEN Falsy(reg[u]) ELSE TRUE
          /\ test' = TestResponse(u, "ok", FALSE, 0)
          /\ UNCHANGED <<storeVars, test_call>>
       \/ /\ u \in DOMAIN reg
          /\ ~Falsy(reg[u])
          /\ nextId + Cardinality(TestCallsInProgress) <= cap
          /\ test_call' = [test_call EXCEPT ![u] =
                [pc |-> "push", fcm_token |-> reg[u], success |-> FALSE,
                 sent_at |-> None]]
          /\ UNCHANGED <<storeVars, test>>
    /\ UNCHANGED <<runVars, history, multicast, request, cycleVars>>

\* Lines 166-184: the push to the token looked up; then the row is built,
\* with datetime.now() as read then when the push returned True (line 182),
\* before the Store is called.
TestPush(u) ==
    /\ test_call[u].pc = "push"
    /\ \E outcome \in GatewayOutcomes :
          LET success == SendPushReturns(outcome) IN
          /\ SendPush(test_call[u].fcm_token[1], 0, outcome)
          /\ test_call' = [test_call EXCEPT
                ![u].pc = "insert",
                ![u].success = success,
                ![u].sent_at = IF success THEN Some(clock) ELSE None]
          /\ IF success THEN Tick ELSE UNCHANGED clock
    /\ UNCHANGED <<log, nextId, reg, faults, runVars, test, history,
                   multicast, request, cycleVars>>

\* Lines 175-193: the Store call of the insert of the row built, and the
\* response.
TestInsert(u) ==
    /\ test_call[u].pc = "insert"
    /\ test_call' = [test_call EXCEPT ![u] = NoTestCall]
    /\ LET success == test_call[u].success IN
       \/ /\ StoreFault
          /\ test' = TestResponse(u, "error", FALSE, 1)
          /\ UNCHANGED <<log, nextId>>
       \/ /\ log' = (nextId :> NewRow(nextId, u, "otro", success,
                         test_call[u].sent_at,
                         test_call[u].fcm_token)) @@ log
          /\ nextId' = nextId + 1
          /\ test' = TestResponse(u, "ok", success, 1)
          /\ UNCHANGED faults
    /\ UNCHANGED <<reg, clock, gw, runVars, history, multicast, request, cycleVars>>

\* One call of send_test_notification, step by step; each Store and gateway
\* call is a step.
SendTest(u, cap) ==
    \/ TestLookup(u, cap)
    \/ TestPush(u)
    \/ TestInsert(u)

(* ---------------------- get_notifications_history --------------------- *)

\* .eq("user_id", user_id)
RowsOfAnyUser(user_id) == Rows
RowsOf(user_id) == {r \in Rows : r.user_id = user_id}

\* .order("created_at", desc=True): x comes before y. Rows with the same
\* created_at come in the order the Store happens to choose for the query,
\* by ascending or by descending id.
Before(x, y, tie) ==
    \/ x.created_at > y.created_at
    \/ /\ x.created_at = y.created_at
       /\ IF tie = "asc" THEN x.id < y.id ELSE x.id > y.id

\* The 0-based position of row r in the ordered answer.
Position(r, S, tie) == Cardinality({x \in S : Before(x, r, tie)})

\* .range(from, to): the rows at the positions from..to, in order.
Range(S, from, to, tie) ==
    LET n == Cardinality({r \in S : Position(r, S, tie) \in from..to})
    IN  [k \in 1..n |-> CHOOSE r \in S : Position(r, S, tie) = from + k - 1]

\* Line 35.
Offset(page, page_size) == (page - 1) * page_size

\* The answer of the Store to .range(offset, ...) of a select with
\* count="exact" when the offset is past the number of rows counted: the
\* range cannot be satisfied (PostgREST answers 416 and the client raises),
\* or, with a Store that does not check the range, the page is empty.
RangeAnswers(offset, total) ==
    IF offset > total THEN {"range_error", "rows"} ELSE {"rows"}

\* Lines 33-53; count="exact" is the number of rows of the user, and a
\* select that raises, for a fault or for a range the Store refuses, ends
\* the call with DatabaseException (lines 52-53). history holds the last
\* response with the user it was for. The query parameters of the request
\* are the route's to record.
GetHistory(user_id, page, page_size) ==
    LET offset == Offset(page, page_size)
        total == Cardinality(RowsOf(user_id))
    IN  /\ \/ /\ StoreFault
              /\ history' = [NoHistory EXCEPT !.status = "error",
                                              !.detail = "fault",
                                              !.user_id = user_id,
                                              !.store_queries = 1]
              /\ UNCHANGED <<log, nextId, reg, clock, gw>>
           \/ /\ "range_error" \in RangeAnswers(offset, total)
              /\ history' = [NoHistory EXCEPT !.status = "error",
                                              !.detail = "range",
                                              !.user_id = user_id,
                                              !.page = page,
                                              !.page_size = page_size,
                                              !.store_queries = 1]
              /\ UNCHANGED storeVars
           \/ /\ "rows" \in RangeAnswers(offset, total)
              /\ \E tie \in {"asc", "desc"} :
                    LET data == Range(RowsOf(user_id), offset,
                                      offset + page_size - 1, tie)
                    IN  history' = [status |-> "ok", detail |-> "",
                                    user_id |-> user_id,
                                    notifications |-> data,
                                    total |-> total,
                                    page |-> page, page_size |-> page_size,
                                    store_queries |-> 1]
              /\ UNCHANGED storeVars
        /\ UNCHANGED <<runVars, test, test_call, multicast, cycleVars>>

(* ------------------------- GET /notifications/history ------------------ *)

\* Query(1, ge=1) and Query(20, ge=1, le=100).
DEFAULT_PAGE == 1
MIN_PAGE == 1
DEFAULT_PAGE_SIZE == 20
MIN_PAGE_SIZE == 1
MAX_PAGE_SIZE == 100

\* The value of a query parameter: the default when it is absent.
QueryValue(q, default) == IF q = None THEN default ELSE q[1]

\* The validation of the two parameters.
AcceptsAnyPageSize(page, page_size) == page >= MIN_PAGE /\ page_size >= MIN_PAGE_SIZE
Accepts(page, page_size) ==
    /\ page >= MIN_PAGE
    /\ page_size >= MIN_PAGE_SIZE
    /\ page_size <= MAX_PAGE_SIZE

\* Lines 14-28 of the route: a request that fails validation is answered 422
\* and the handler is not called; a DatabaseException of the handler is
\* answered 500.
HistoryRoute(user_id, qpage, qsize) ==
    LET page == QueryValue(qpage, DEFAULT_PAGE)
        page_size == QueryValue(qsize, DEFAULT_PAGE_SIZE)
    IN  /\ request' = <<qpage, qsize>>
        /\ IF Accepts(page, page_size)
           THEN GetHistory(user_id, page, page_size)
           ELSE /\ history' = [NoHistory EXCEPT !.status = "rejected",
                                                !.user_id = user_id]
                /\ UNCHANGED <<storeVars, runVars, test, test_call, multicast, cycleVars>>

(* --------------------- send_multicast_notification --------------------- *)

\* What messaging.send_multicast does with the message: it raises, or it
\* returns a BatchResponse with one SendResponse (success or not) per token.
BatchOutcomes(tokens) ==
    {[raised |-> TRUE, responses |-> <<>>]} \cup
    {[raised |-> FALSE, responses |-> r] : r \in [1..Len(tokens) -> BOOLEAN]}

\* BatchResponse.success_count and BatchResponse.failure_count.
SuccessCount(responses) ==
    Cardinality({i \in DOMAIN responses : responses[i]})

FailureCount(responses) ==
    Cardinality(DOMAIN responses) - SuccessCount(responses)

\* Lines 95-116: the counts of the response, or (0, len(tokens)) from both
\* except clauses.
SendMulticastReturnsNoFailures(tokens, outcome) ==
    IF outcome.raised
    THEN <<0, 0>>
    ELSE <<SuccessCount(outcome.responses), FailureCount(outcome.responses)>>
SendMulticastReturns(tokens, outcome) ==
    IF outcome.raised
    THEN <<0, Len(tokens)>>
    ELSE <<SuccessCount(outcome.responses), FailureCount(outcome.responses)>>

SendMulticast ==
    /\ multicast.status = "asked"
    /\ \E outcome \in BatchOutcomes(multicast.tokens) :
          LET counts == SendMulticastReturns(multicast.tokens, outcome)
          IN  multicast' = [multicast EXCEPT !.status = "returned",
                                             !.outcome = outcome,
                                             !.success_count = counts[1],
                                             !.failure_count = counts[2]]
    /\ UNCHANGED <<storeVars, runVars, test, test_call, history, request, cycleVars>>

(* ------------------- CycleService.add_period_day ----------------------- *)

\* The users and the dates of the requests.
PeriodUsers == {"A", "B"}
Dates == 1..MaxDates

\* The places in period_days of the rows with the given user and date.
PeriodRowsOf(user_id, period_date) ==
    {i \in DOMAIN period_days :
        /\ period_days[i].user_id = user_id
        /\ period_days[i].period_date = period_date}

\* The places in period_days of the rows with the given id.
PeriodRowsWithId(id) == {i \in DOMAIN period_days : period_days[i].id = id}

\* The call of request p ends with DatabaseException.
PeriodRaise(p) ==
    period_call' = [period_call EXCEPT ![p].pc = "done", ![p].status = "error"]

\* Request p makes its call: add_period_day with one date,
\* add_period_days_batch with a list of dates (lines 194-198: the loop over
\* the list).
StartPeriodCall(p, batch, user_id, dates, is_period_day) ==
    /\ period_call[p].pc = "idle"
    /\ period_call' = [period_call EXCEPT ![p] =
          [pc |-> IF dates = <<>> THEN "done" ELSE "select",
           batch |-> batch, user_id |-> user_id, dates |-> dates,
           is_period_day |-> is_period_day, existing |-> None,
           results |-> <<>>,
           status |-> IF dates = <<>> THEN "ok" ELSE "none"]]
    /\ UNCHANGED <<storeVars, runVars, respVars, period_days, period_id_seq,
                   period_unique, period_last>>

AddPeriodDay(p, user_id, period_date, is_period_day) ==
    StartPeriodCall(p, FALSE, user_id, <<period_date>>, is_period_day)

AddPeriodDaysBatch(p, user_id, dates, is_period_day) ==
    StartPeriodCall(p, TRUE, user_id, dates, is_period_day)

\* Lines 150-154: the select of the rows of the user and the date;
\* existing.data[0] is any one of them.
SelectPeriodDay(p) ==
    /\ period_call[p].pc = "select"
    /\ LET c == period_call[p]
           found == PeriodRowsOf(c.user_id, Head(c.dates))
       IN  \/ /\ StoreFault
              /\ PeriodRaise(p)
              /\ UNCHANGED <<log, nextId, reg, clock, gw>>
           \/ /\ found = {}
              /\ period_call' = [period_call EXCEPT ![p].pc = "write",
                                                    ![p].existing = None]
              /\ UNCHANGED storeVars
           \/ /\ \E first \in found :
                    period_call' = [period_call EXCEPT ![p].pc = "write",
                                                       ![p].existing =
                                                           Some(period_days[first].id)]
              /\ UNCHANGED storeVars
    /\ UNCHANGED <<runVars, respVars, period_days, period_id_seq, period_unique,
                   period_last>>

\* Lines 173-176: the row written is returned; the loop of the batch goes on
\* to the next date.
PeriodReturn(p, row) ==
    LET c == period_call[p]
        rest == Tail(c.dates)
    IN  /\ period_call' = [period_call EXCEPT
              ![p].pc = IF rest = <<>> THEN "done" ELSE "select",
              ![p].status = IF rest = <<>> THEN "ok" ELSE "none",
              ![p].dates = rest,
              ![p].existing = None,
              ![p].results = Append(@, row)]
        /\ period_last' = (<<row.user_id, row.period_date>> :> row.is_period_day)
                             @@ period_last

\* Lines 158-161: update({"is_period_day": v}).eq("id", id).
UpdatePeriodDay(id, is_period_day) ==
    [i \in DOMAIN period_days |->
        IF period_days[i].id = id
        THEN [period_days[i] EXCEPT !.is_period_day = is_period_day]
        ELSE period_days[i]]

\* Lines 164-170: insert({user_id, period_date, is_period_day}); the table
\* gives the row an id it has never given before.
InsertPeriodDay(user_id, period_date, is_period_day) ==
    Append(period_days, [id |-> period_id_seq, user_id |-> user_id,
                         period_date |-> period_date,
                         is_period_day |-> is_period_day])

\* Lines 156-176: the update of the row found, or the insert of a new one. A
\* table with a unique key on (user_id, period_date) rejects the insert of a
\* second row with the same key; an update that finds the row gone returns
\* no data and the call raises (lines 172-173).
WritePeriodDay(p) ==
    /\ period_call[p].pc = "write"
    /\ LET c == period_call[p]
           period_date == Head(c.dates)
       IN  \/ /\ StoreFault
              /\ PeriodRaise(p)
              /\ UNCHANGED <<log, nextId, reg, clock, gw, period_days, period_id_seq,
                             period_last>>
           \/ /\ c.existing /= None
              /\ PeriodRowsWithId(c.existing[1]) = {}
              /\ PeriodRaise(p)
              /\ UNCHANGED <<storeVars, period_days, period_id_seq, period_last>>
           \/ /\ c.existing /= None
              /\ PeriodRowsWithId(c.existing[1]) /= {}
              /\ period_days' = UpdatePeriodDay(c.existing[1], c.is_period_day)
              /\ \E i \in PeriodRowsWithId(c.existing[1]) :
                    PeriodReturn(p, period_days'[i])
              /\ UNCHANGED <<storeVars, period_id_seq>>
           \/ /\ c.existing = None
              /\ period_unique
              /\ PeriodRowsOf(c.user_id, period_date) /= {}
              /\ PeriodRaise(p)
              /\ UNCHANGED <<storeVars, period_days, period_id_seq, period_last>>
           \/ /\ c.existing = None
              /\ ~(period_unique /\ PeriodRowsOf(c.user_id, period_date) /= {})
              /\ period_days' = InsertPeriodDay(c.user_id, period_date, c.is_period_day)
              /\ period_id_seq' = period_id_seq + 1
              /\ PeriodReturn(p, period_days'[Len(period_days')])
              /\ UNCHANGED storeVars
    /\ UNCHANGED <<runVars, respVars, period_unique>>

(* --------------------------- specifications ---------------------------- *)

\* One invocation of process_pending_notifications, step by step; each Store
\* and gateway call is a step.
Dispatcher(p, lim) ==
    \/ Fetch(p, lim)
    \/ Resolve(p)
    \/ Send(p)
    \/ Mark(p)

Accounts ==
    \/ \E u \in Users : UpdateFcmToken(u, Device(u))
    \/ \E u \in Users : ClearFcmToken(u)
    \/ \E u \in Users : DeleteAccount(u)

\* One dispatcher invocation at a time (the scheduler's periodic call), the
\* producer and the account operations.
Next ==
    \/ Dispatcher(1, FETCH_LIMIT)
    \/ \E u \in Users : CreateNotification(u, MaxRecords)
    \/ Accounts

Spec == Init /\ [][Next]_vars

\* A pending row of user u stored with the given created_at.
PendingRow(id, u, created_at) ==
    [id |-> id, user_id |-> u, notification_type |-> "anticonceptivo",
     title |-> "T", message |-> "M", is_sent |-> FALSE, sent_at |-> None,
     fcm_token |-> None, created_at |-> created_at]

\* A Store that holds up to MaxBatch pending rows of any users; A and B have a
\* device, C has none.

InitBatch ==
    \E k \in 0..MaxBatch : \E owner \in [1..k -> Users] :
        InitStore([i \in 1..k |-> PendingRow(i, owner[i], i)],
                  [u \in Users |-> IF u = "C" THEN None ELSE Some(Device(u))])

NextBatch == Dispatcher(1, FETCH_LIMIT)

SpecBatch == InitBatch /\ [][NextBatch]_vars

\* The same with the fetch ceiling below the number of pending rows.
NextCeiling == Dispatcher(1, Ceiling)

SpecCeiling == InitBatch /\ [][NextCeiling]_vars

\* The dispatcher and the ad-hoc test dispatch; A registers a device and B
\* never does.
NextTest ==
    \/ Dispatcher(1, FETCH_LIMIT)
    \/ \E u \in Registered : CreateNotification(u, MaxTestRecords)
    \/ \E u \in Registered : SendTest(u, MaxTestRecords)
    \/ UpdateFcmToken("A", Device("A"))

SpecTest == Init /\ [][NextTest]_vars

\* Two overlapping dispatcher invocations and the test dispatch; A has a
\* device and B has none.
InitOverlap ==
    InitStore(<<>>, [u \in Registered |-> IF u = "A" THEN Some(Device(u)) ELSE None])

NextOverlap ==
    \/ \E p \in Workers : Dispatcher(p, FETCH_LIMIT)
    \/ \E u \in Registered : CreateNotification(u, MaxOverlapRecords)
    \/ \E u \in Registered : SendTest(u, MaxOverlapRecords)

SpecOverlap == InitOverlap /\ [][NextOverlap]_vars

\* The history pages of a Store that holds T rows of A (up to MaxFewHist, or
\* MaxHist) after the rows of B; with tied = TRUE the two newest rows have the
\* same created_at.
InitHistory ==
    \E T \in (0..MaxFewHist) \cup {MaxHist}, other \in 0..MaxOther, tied \in BOOLEAN :
        LET n == other + T
            created(i) == IF tied /\ i = n /\ T >= 2 THEN i - 1 ELSE i
        IN  InitStore([i \in 1..n |->
                          PendingRow(i, IF i <= other THEN "B" ELSE "A", created(i))],
                      [u \in Registered |-> None])

\* The query parameters tried: absent, below, inside and above the bounds.
PageQueries == {None} \cup {Some(page) : page \in 0..MaxPage}

PageSizeQueries ==
    {None} \cup {Some(page_size) : page_size \in 0..MaxPageSize}
           \cup {Some(MAX_PAGE_SIZE), Some(MAX_PAGE_SIZE + 1)}

NextHistory ==
    \E u \in Registered, qpage \in PageQueries, qsize \in PageSizeQueries :
        HistoryRoute(u, qpage, qsize)

SpecHistory == InitHistory /\ [][NextHistory]_vars

\* One batch of rows of A while A's device token is replaced or cleared.
SecondDevice == "tA2"

InitToken ==
    \E k \in 1..MaxTokenRows :
        InitStore([i \in 1..k |-> PendingRow(i, "A", i)],
                  [u \in Registered |-> IF u = "A" THEN Some(Device(u)) ELSE None])

NextToken ==
    \/ Dispatcher(1, FETCH_LIMIT)
    \/ \E t \in {Device("A"), SecondDevice} : UpdateFcmToken("A", t)
    \/ ClearFcmToken("A")

SpecToken == InitToken /\ [][NextToken]_vars

\* The three operations of the service side by side: one dispatcher, the
\* test dispatch and the history query; A has a device and B has none.
NextEngine ==
    \/ Dispatcher(1, FETCH_LIMIT)
    \/ \E u \in Registered : CreateNotification(u, MaxEngineRecords)
    \/ \E u \in Registered : SendTest(u, MaxEngineRecords)
    \/ \E u \in Registered, page \in 1..2, page_size \in 1..MaxEnginePageSize :
          HistoryRoute(u, Some(page), Some(page_size))

SpecEngine == InitOverlap /\ [][NextEngine]_vars

\* The three operations over a log that holds rows of A and of B, in turn,
\* when they start: every write is made next to rows it must leave alone. A
\* has a device and B has none; the test dispatch adds one row to the log.
InitFrame ==
    InitStore([i \in 1..MaxFrameRecords |->
                  PendingRow(i, IF i % 2 = 1 THEN "A" ELSE "B", i)],
              [u \in Registered |-> IF u = "A" THEN Some(Device(u)) ELSE None])

NextFrame ==
    \/ Dispatcher(1, FETCH_LIMIT)
    \/ \E u \in Registered : SendTest(u, MaxFrameRecords + 1)
    \/ \E u \in Registered :
          HistoryRoute(u, Some(DEFAULT_PAGE), Some(MIN_PAGE_SIZE))

SpecFrame == InitFrame /\ [][NextFrame]_vars

\* send_multicast_notification on every token list up to MaxTokens.
TokenLists ==
    UNION {[1..n -> {Device(u) : u \in Users}] : n \in 0..MaxTokens}

InitMulticast ==
    \E tokens \in TokenLists :
        InitService(<<>>, [u \in Registered |-> None],
                    [NoMulticast EXCEPT !.status = "asked", !.tokens = tokens])

NextMulticast == SendMulticast

SpecMulticast == InitMulticast /\ [][NextMulticast]_vars

\* The scheduler calls the dispatcher again and again on a Store that holds up
\* to MaxLiveRecords pending rows; B may clear the device token.  The
\* invocation is never postponed for ever, and a push to a device that is
\* tried again and again is accepted at some time.
InitLive ==
    \E k \in 1..MaxLiveRecords : \E owner \in [1..k -> Users] :
        InitStore([i \in 1..k |-> PendingRow(i, owner[i], i)],
                  [u \in Users |-> IF u = "C" THEN None ELSE Some(Device(u))])

NextLive ==
    \/ Dispatcher(1, FETCH_LIMIT)
    \/ ClearFcmToken("B")

\* messaging.send returns a message id for the row i.
AcceptedSend(p, i) ==
    /\ Send(p)
    /\ Head(todo[p]).id = i
    /\ gw' /= gw

Fairness ==
    /\ WF_vars(Dispatcher(1, FETCH_LIMIT))
    /\ \A i \in 1..MaxLiveRecords : SF_vars(AcceptedSend(1, i))

SpecLive == InitLive /\ [][NextLive]_vars /\ Fairness

\* The same repeated invocation with the fetch ceiling below the number of
\* pending rows.
FairnessCeiling ==
    /\ WF_vars(Dispatcher(1, Ceiling))
    /\ \A i \in 1..MaxBatch : SF_vars(AcceptedSend(1, i))

SpecCeilingLive == InitBatch /\ [][NextCeiling]_vars /\ FairnessCeiling

\* Two requests, one after the other or at the same time, call
\* add_period_day and add_period_days_batch on an empty period_days table,
\* with or without a unique key; a batch may name a date twice. An account
\* may be deleted at any time.
DateLists == UNION {[1..n -> Dates] : n \in 0..(MaxDates + 1)}

InitPeriod ==
    \E unique \in BOOLEAN :
        /\ InitNotifications(<<>>, [u \in Registered |-> None], NoMulticast)
        /\ InitPeriodDays(unique)

NextPeriod ==
    \/ \E p \in Workers, u \in PeriodUsers, d \in Dates, v \in BOOLEAN :
          AddPeriodDay(p, u, d, v)
    \/ \E p \in Workers, u \in PeriodUsers, ds \in DateLists, v \in BOOLEAN :
          AddPeriodDaysBatch(p, u, ds, v)
    \/ \E p \in Workers : SelectPeriodDay(p)
    \/ \E p \in Workers : WritePeriodDay(p)
    \/ \E u \in PeriodUsers : DeleteAccount(u)

SpecPeriod == InitPeriod /\ [][NextPeriod]_vars

(* ------------------------------- claims -------------------------------- *)

\* The rows with is_sent = false, read off the log.
PendingIds == {i \in DOMAIN log : ~log[i].is_sent}

\* The gateway accepted a push of a row of user u to u's device.
Accepted(u) ==
    \E i \in DOMAIN log : log[i].user_id = u /\ BagIn(<<i, Device(u)>>, gw)

\* Scenario A: three rows, one of each of A, B and C, in a run that fetched
\* three pending rows with no Store fault.
ScenarioA ==
    /\ DOMAIN log = 1..3
    /\ {log[i].user_id : i \in DOMAIN log} = Users
    /\ fetched[1] = 3
    /\ faults = 0

\* C1: every summary has processed = the number of unsent rows fetched (the
\* rows still unsent plus the rows this run marked) and processed = sent +
\* failed; in scenario A with both pushes accepted the summary is
\* {processed 3, sent 2, failed 1}, C's row is unsent and A's and B's rows
\* are sent with a sent_at.
C1_SummaryAccounting ==
    result[1].status = "ok" =>
        /\ result[1].processed = Cardinality(PendingIds) + result[1].sent
        /\ result[1].processed = calls[1].lookups
        /\ result[1].processed = result[1].sent + result[1].failed
        /\ (ScenarioA /\ Accepted("A") /\ Accepted("B")) =>
              /\ result[1].sent = 2
              /\ result[1].failed = 1
              /\ result[1].processed = 3
              /\ \A i \in DOMAIN log :
                    IF log[i].user_id = "C"
                    THEN ~log[i].is_sent /\ log[i].sent_at = None
                    ELSE log[i].is_sent /\ log[i].sent_at /= None

C1_Witness ==
    /\ ScenarioA
    /\ result[1] = Summary(3, 2, 1, "procesadas")

\* The invocation p took a step.
Stepped(p) ==
    <<pc[p], todo[p], fetched[p], sent_count[p], failed_count[p], fcm_token[p],
      stamp[p], calls[p], result[p]>>' /=
    <<pc[p], todo[p], fetched[p], sent_count[p], failed_count[p], fcm_token[p],
      stamp[p], calls[p], result[p]>>

\* A sent row that still exists is exactly as it was.
SentRowsFrozen ==
    \A i \in DOMAIN log :
        (log[i].is_sent /\ i \in DOMAIN log') => log'[i] = log[i]

\* No row the invocation holds to work on is a sent row.
NeverSelected ==
    \A k \in 1..Len(todo[1]) :
        todo[1][k].id \in DOMAIN log => ~log[todo[1][k].id].is_sent

\* C2: with one invocation at a time, a row that is sent is never fetched by
\* a later run and never written again: is_sent, sent_at and fcm_token stay
\* as first written.
C2_MonotonicDelivery == [][SentRowsFrozen /\ NeverSelected']_vars

C2_Witness ==
    /\ \E i \in DOMAIN log : log[i].is_sent
    /\ result[1].status = "ok"
    /\ result[1].processed >= 1
    /\ result[1].sent = 0

\* C3: under overlapping invocations and test dispatches a sent row stays a
\* row with is_sent = true: is_sent never goes back to false.
C3_NeverReverts ==
    [][\A i \in DOMAIN log :
          log[i].is_sent => (i \in DOMAIN log' /\ log'[i].is_sent)]_vars

\* A row that two overlapping invocations both marked: its sent_at is that
\* of the second write.
C3_Witness ==
    \E i \in DOMAIN log :
        /\ log[i].notification_type = "anticonceptivo"
        /\ log[i].is_sent
        /\ log[i].sent_at = Some(2)
        /\ nextId = 2

\* C4: every row has a sent_at exactly when it is sent.
C4_SentAtIffSent ==
    \A i \in DOMAIN log : (log[i].sent_at /= None) <=> log[i].is_sent

\* A test row logged unsent, and a row the dispatcher marked.
C4_Witness ==
    /\ \E i \in DOMAIN log :
          log[i].notification_type = "otro" /\ ~log[i].is_sent
    /\ \E i \in DOMAIN log :
          log[i].notification_type = "anticonceptivo" /\ log[i].is_sent

\* C5: a run that finds every row sent answers {0, 0, 0}, makes no lookup,
\* send or write and leaves the Store as it is.
C5_EmptyQueueNoOp ==
    [][(/\ pc[1] \in {"idle", "done"}
        /\ \A i \in DOMAIN log : log[i].is_sent
        /\ Stepped(1)
        /\ faults' = faults)
       => (/\ result'[1] = Summary(0, 0, 0, "no hay pendientes")
           /\ pc'[1] = "done"
           /\ calls'[1] = NoCalls
           /\ UNCHANGED <<log, nextId, reg, clock, gw>>)]_vars

C5_Witness ==
    /\ DOMAIN log /= {}
    /\ \A i \in DOMAIN log : log[i].is_sent
    /\ pc[1] = "done"
    /\ result[1] = Summary(0, 0, 0, "no hay pendientes")

\* The pending rows whose owner has a user_settings row without a token.
NoTokenIds ==
    {i \in PendingIds :
        log[i].user_id \in DOMAIN reg /\ Falsy(reg[log[i].user_id])}

NoTokenRowsStayUnsent ==
    \A i \in DOMAIN log :
        (log[i].user_id \in DOMAIN reg /\ Falsy(reg[log[i].user_id]))
            => ~log[i].is_sent

\* The lookup of a row whose owner has no token counts it as failed and
\* sends and writes nothing.
NoTokenRowFails ==
    (/\ pc[1] = "resolve"
     /\ Head(todo[1]).user_id \in DOMAIN reg
     /\ Falsy(reg[Head(todo[1]).user_id])
     /\ Stepped(1)
     /\ faults' = faults)
    => (/\ failed_count'[1] = failed_count[1] + 1
        /\ sent_count'[1] = sent_count[1]
        /\ calls'[1].sends = calls[1].sends
        /\ calls'[1].writes = calls[1].writes
        /\ UNCHANGED <<log, gw>>)

\* A run that finds no more pending rows than the ceiling fetches them all.
RefetchedWhenFew ==
    (/\ pc[1] \in {"idle", "done"}
     /\ pc'[1] = "resolve"
     /\ Cardinality(PendingIds) <= Ceiling)
    => \A i \in PendingIds : \E k \in 1..Len(todo'[1]) : todo'[1][k].id = i

\* C6 as stated: a row whose owner has no token stays unsent and every run
\* that ends with a summary has counted every such row as failed.
C6_FailedAgainInEveryRun ==
    /\ NoTokenRowsStayUnsent
    /\ result[1].status = "ok" => result[1].failed >= Cardinality(NoTokenIds)

\* C6 amended: a row whose owner has no token is counted as failed, with no
\* send and no write, by every run that fetches it, and stays unsent; a run
\* fetches it whenever no more rows are pending than the fetch ceiling.
C6_FailedInEveryRunThatFetchesIt ==
    [][NoTokenRowFails /\ RefetchedWhenFew /\ NoTokenRowsStayUnsent']_vars

\* More rows without a token are pending than the run that just ended could
\* fetch, and it counted the ones it fetched.
C6_Witness ==
    /\ result[1].status = "ok"
    /\ result[1].failed = Ceiling
    /\ Cardinality(NoTokenIds) > Ceiling

\* C7: a row whose owner has no user_settings row is counted as failed and
\* the run goes on to the next row and to its summary.
C7_MissingRowFailsClosed ==
    [][(/\ pc[1] = "resolve"
        /\ Head(todo[1]).user_id \notin DOMAIN reg
        /\ Stepped(1)
        /\ faults' = faults)
       => (/\ failed_count'[1] = failed_count[1] + 1
           /\ result'[1].status /= "error")]_vars

\* C8: a Store fault ends the run with a server error; the step that ends a
\* run with a server error leaves every row as it is, marked or not.
C8_StoreFaultAborts ==
    [][/\ faults' /= faults =>
            (pc'[1] = "done" /\ result'[1] = ServerError /\ log' = log)
       /\ (Stepped(1) /\ result'[1].status = "error") =>
            (pc'[1] = "done" /\ log' = log)
       /\ (Stepped(1) /\ pc[1] \in {"resolve", "send", "mark"}
            /\ result'[1].status = "ok") => faults' = faults]_vars

\* A run that marked a row and then failed on the next one.
C8_Witness ==
    /\ result[1] = ServerError
    /\ faults = 1
    /\ calls[1].writes = 1
    /\ \E i \in DOMAIN log : log[i].is_sent
    /\ Len(todo[1]) >= 1
    /\ Head(todo[1]).id \in DOMAIN log
    /\ ~log[Head(todo[1]).id].is_sent

\* C9: one run fetches, looks up, sends and writes at most the ceiling.
C9_FetchCeiling ==
    /\ fetched[1] <= Ceiling
    /\ Len(todo[1]) <= Ceiling
    /\ result[1].processed <= Ceiling
    /\ calls[1].lookups <= Ceiling
    /\ calls[1].sends <= Ceiling
    /\ calls[1].writes <= Ceiling

\* A run that handled as many rows as the ceiling when more were pending.
C9_Witness ==
    /\ result[1].status = "ok"
    /\ result[1].processed = Ceiling
    /\ Cardinality(PendingIds) + result[1].sent > Ceiling

\* The rows of the user the last history response was for.
HistoryOwned == {i \in DOMAIN log : log[i].user_id = history.user_id}

\* The last history request was answered by the Store without a fault: with
\* rows, or with the refusal of a range past the rows counted.
HistoryAnswered ==
    \/ history.status = "ok"
    \/ history.status = "error" /\ history.detail = "range"

\* C10: a history request for a user with T rows, page p and page size s,
\* unless the Store fails, is answered with min(s, max(0, T - (p-1)*s)) rows,
\* the ones at the positions (p-1)*s .. (p-1)*s + s - 1 of the user's rows by
\* descending created_at, with total = T; a page past the end is answered
\* with an empty list and the same total.
C10_Pagination ==
    HistoryAnswered =>
        LET T == Cardinality(HistoryOwned)
            p == history.page
            s == history.page_size
            rest == T - (p - 1) * s
            n == Len(history.notifications)
            item(k) == history.notifications[k]
        IN  /\ history.status = "ok"
            /\ n = IF rest > s THEN s ELSE IF rest > 0 THEN rest ELSE 0
            /\ history.total = T
            /\ \A k \in 1..n :
                  /\ item(k).id \in HistoryOwned
                  /\ log[item(k).id] = item(k)
                  /\ Cardinality({i \in HistoryOwned :
                          log[i].created_at > item(k).created_at})
                        <= (p - 1) * s + k - 1
                  /\ Cardinality({i \in HistoryOwned :
                          log[i].created_at >= item(k).created_at})
                        > (p - 1) * s + k - 1
            /\ \A j, k \in 1..n : j /= k => item(j).id /= item(k).id

\* C11: a history page is in descending created_at order, and the page that
\* follows it for the same user and page size, over the same rows, repeats
\* none of its rows (rows with equal created_at keep one order).
C11_StablePages ==
    [][(/\ history.status = "ok"
        /\ history'.status = "ok"
        /\ history'.user_id = history.user_id
        /\ history'.page_size = history.page_size
        /\ history'.page = history.page + 1
        /\ log' = log)
       => (/\ \A j, k \in 1..Len(history'.notifications) :
                 j < k => history'.notifications[j].created_at
                            >= history'.notifications[k].created_at
           /\ \A j \in 1..Len(history.notifications),
                 k \in 1..Len(history'.notifications) :
                 history.notifications[j].id /= history'.notifications[k].id)]_vars

\* The step inserts a row of type "otro".
InsertedTestRow ==
    /\ nextId' = nextId + 1
    /\ nextId \in DOMAIN log'
    /\ log'[nextId].notification_type = "otro"

\* C12: a test dispatch for a user whose row has no token answers
\* success = false and inserts a row of that user with is_sent = false and no
\* sent_at.
C12_NoTokenTestIsLogged ==
    [][(/\ test' /= test
        /\ test'.status = "ok"
        /\ test'.user_id \in DOMAIN reg
        /\ Falsy(reg[test'.user_id]))
       => (/\ test'.success = FALSE
           /\ nextId' = nextId + 1
           /\ nextId \in DOMAIN log'
           /\ log'[nextId].user_id = test'.user_id
           /\ ~log'[nextId].is_sent
           /\ log'[nextId].sent_at = None)]_vars

\* C13: a test dispatch for a user with a token, with no Store fault, makes
\* one gateway send to the token it looked up, inserts one row whose is_sent
\* is the outcome of the send and whose sent_at is set exactly when it
\* succeeded, answers that outcome and leaves every other row as it was.
C13_TestDispatchWithToken ==
    [][\A u \in Users :
          LET call == test_call[u] IN
          /\ (call.pc = "idle" /\ test_call'[u].pc = "push") =>
                /\ u \in DOMAIN reg
                /\ ~Falsy(reg[u])
                /\ test_call'[u].fcm_token = reg[u]
                /\ UNCHANGED <<log, gw>>
          /\ (call.pc = "push" /\ test_call'[u].pc /= "push") =>
                /\ test_call'[u].pc = "insert"
                /\ gw' = IF test_call'[u].success
                         THEN gw (+) SetToBag({<<0, call.fcm_token[1]>>})
                         ELSE gw
                /\ log' = log
          /\ (call.pc = "insert" /\ test_call'[u].pc /= "insert" /\ faults' = faults) =>
                /\ test' = TestResponse(u, "ok", call.success, 1)
                /\ gw' = gw
                /\ InsertedTestRow
                /\ DOMAIN log' = DOMAIN log \cup {nextId}
                /\ \A i \in DOMAIN log : log'[i] = log[i]
                /\ log'[nextId].user_id = u
                /\ log'[nextId].is_sent = call.success
                /\ (log'[nextId].sent_at /= None) <=> call.success
                /\ log'[nextId].fcm_token = call.fcm_token]_vars

\* A delivered test next to an earlier row, and the answer of the call.
C13_Witness ==
    /\ test = TestResponse("A", "ok", TRUE, 1)
    /\ DOMAIN log = {1, 2}
    /\ log[1].notification_type = "anticonceptivo"
    /\ log[2].notification_type = "otro"
    /\ log[2].user_id = "A"
    /\ log[2].is_sent
    /\ BagIn(<<0, "tA">>, gw)

\* C14: send_multicast_notification returns counts that add up to the
\* number of tokens, (0, len(tokens)) when the gateway call raises and (0, 0)
\* for the empty list.
C14_MulticastAccounting ==
    multicast.status = "returned" =>
        /\ multicast.success_count + multicast.failure_count
              = Len(multicast.tokens)
        /\ multicast.success_count >= 0
        /\ multicast.failure_count >= 0
        /\ multicast.outcome.raised =>
              /\ multicast.success_count = 0
              /\ multicast.failure_count = Len(multicast.tokens)
        /\ multicast.tokens = <<>> =>
              multicast.success_count = 0 /\ multicast.failure_count = 0

\* The gateway call raised on a list of MaxTokens tokens.
C14_Witness ==
    /\ multicast.status = "returned"
    /\ multicast.outcome.raised
    /\ Len(multicast.tokens) = MaxTokens
    /\ multicast.failure_count = MaxTokens

\* C15: the push of a run never ends the run with an error; it reports
\* success exactly when the gateway accepted the message, and every other
\* outcome is a failure of that row.
C15_SendNeverRaises ==
    [][(pc[1] = "send" /\ Stepped(1))
       => (/\ result'[1].status /= "error"
           /\ faults' = faults
           /\ (pc'[1] = "mark") <=>
                 (gw' = gw (+) SetToBag({<<Head(todo[1]).id, fcm_token[1][1]>>}))
           /\ pc'[1] /= "mark" =>
                 /\ gw' = gw
                 /\ failed_count'[1] = failed_count[1] + 1)]_vars

\* A run with one push accepted and one refused.
C15_Witness ==
    /\ result[1] = Summary(2, 1, 1, "procesadas")
    /\ calls[1].sends = 2
    /\ BagCardinality(gw) = 1

\* How many times the gateway accepted a push of row i.
Deliveries(i) ==
    LET msgs == {m \in BagToSet(gw) : m[1] = i}
        sum[S \in SUBSET msgs] ==
            IF S = {} THEN 0
            ELSE LET m == CHOOSE x \in S : TRUE
                 IN  CopiesIn(m, gw) + sum[S \ {m}]
    IN  sum[msgs]

\* C16: with overlapping invocations and no Store fault, a row is delivered
\* once per invocation that fetched it while it was unsent, so at most once
\* per invocation, and a delivered row is marked or about to be marked; the
\* row delivered by both invocations is reached.
C16_DuplicateDelivery ==
    faults = 0 =>
        \A i \in DOMAIN log :
            /\ Deliveries(i) <= Cardinality(Workers)
            /\ Deliveries(i) >= 1 =>
                  \/ log[i].is_sent
                  \/ \E p \in Workers :
                        pc[p] = "mark" /\ Head(todo[p]).id = i

\* Both invocations fetched row 1 and both pushed it to the same device.
C16_Witness ==
    /\ faults = 0
    /\ 1 \in DOMAIN log
    /\ Deliveries(1) = 2
    /\ log[1].is_sent
    /\ \A p \in Workers : fetched[p] = 1 /\ calls[p].sends = 1

\* C17: no step of the dispatcher, the test dispatch or the history query
\* removes a row or changes its id, created_at, user_id, notification_type,
\* title or message; the only change to a row is the dispatcher's mark of the
\* row it has just pushed successfully: is_sent, sent_at and fcm_token, with
\* every other row as it was.
C17_Frame ==
    [][\A i \in DOMAIN log :
          /\ i \in DOMAIN log'
          /\ log'[i].id = log[i].id
          /\ log'[i].created_at = log[i].created_at
          /\ log'[i].user_id = log[i].user_id
          /\ log'[i].notification_type = log[i].notification_type
          /\ log'[i].title = log[i].title
          /\ log'[i].message = log[i].message
          /\ log'[i] /= log[i] =>
                /\ pc[1] = "mark"
                /\ Head(todo[1]).id = i
                /\ Deliveries(i) >= 1
                /\ sent_count'[1] = sent_count[1] + 1
                /\ log'[i] = [log[i] EXCEPT !.is_sent = TRUE,
                                            !.sent_at = stamp[1],
                                            !.fcm_token = fcm_token[1]]
                /\ \A j \in DOMAIN log \ {i} : log'[j] = log[j]]_vars

\* The dispatcher marked row 1 and left row 2, unsent, as it was; the test
\* dispatch added its row next to them and the history query read them.
C17_Witness ==
    /\ DOMAIN log = {1, 2, 3}
    /\ log[1].is_sent
    /\ log[2] = PendingRow(2, log[2].user_id, 2)
    /\ log[3].notification_type = "otro"
    /\ result[1].sent >= 1
    /\ test.status = "ok"
    /\ history.status = "ok"
    /\ history.total >= 1

\* C18: a history request is accepted exactly when its page (1 when absent)
\* is at least 1 and its page size (20 when absent) is between 1 and 100; a
\* rejected one is answered without a Store query and an accepted one makes
\* the query and, unless the Store fails, is answered with the page and the
\* page size it asked for.
C18_HistoryValidation ==
    history.status /= "none" =>
        LET page == IF request[1] = None THEN 1 ELSE request[1][1]
            page_size == IF request[2] = None THEN 20 ELSE request[2][1]
        IN  IF page >= 1 /\ page_size >= 1 /\ page_size <= 100
            THEN /\ history.status \in {"ok", "error"}
                 /\ history.store_queries = 1
                 /\ history.status = "ok" =>
                       /\ history.page = page
                       /\ history.page_size = page_size
            ELSE /\ history.status = "rejected"
                 /\ history.store_queries = 0
                 /\ history.notifications = <<>>

\* A page size of 101 was asked for and refused.
C18_Witness ==
    /\ request = <<Some(1), Some(101)>>
    /\ history.status = "rejected"
    /\ Cardinality(RowsOf(history.user_id)) >= 1

\* The lookup of a row whose owner has a token goes on to the push with
\* that token.
TokenRowIsPushed ==
    (/\ pc[1] = "resolve"
     /\ Head(todo[1]).user_id \in DOMAIN reg
     /\ ~Falsy(reg[Head(todo[1]).user_id])
     /\ Stepped(1)
     /\ faults' = faults)
    => (/\ pc'[1] = "send"
        /\ fcm_token'[1] = reg[Head(todo[1]).user_id]
        /\ todo'[1] = todo[1]
        /\ UNCHANGED <<log, gw>>)

\* One push with the resolved token; a refused push counts the row as
\* failed and writes nothing.
PushedOnce ==
    (pc[1] = "send" /\ Stepped(1))
    => (/\ calls'[1].sends = calls[1].sends + 1
        /\ calls'[1].writes = calls[1].writes
        /\ log' = log
        /\ \/ /\ gw' = gw (+) SetToBag({<<Head(todo[1]).id, fcm_token[1][1]>>})
              /\ pc'[1] = "mark"
              /\ todo'[1] = todo[1]
              /\ sent_count'[1] = sent_count[1]
              /\ failed_count'[1] = failed_count[1]
           \/ /\ gw' = gw
              /\ pc'[1] \in {"resolve", "done"}
              /\ todo'[1] = Tail(todo[1])
              /\ sent_count'[1] = sent_count[1]
              /\ failed_count'[1] = failed_count[1] + 1)

\* The mark after an accepted push: that row and no other.
MarkedAfterSuccess ==
    (pc[1] = "mark" /\ Stepped(1) /\ faults' = faults)
    => (/\ sent_count'[1] = sent_count[1] + 1
        /\ failed_count'[1] = failed_count[1]
        /\ calls'[1].writes = calls[1].writes + 1
        /\ gw' = gw
        /\ DOMAIN log' = DOMAIN log
        /\ \A i \in DOMAIN log :
              log'[i] = IF i = Head(todo[1]).id
                        THEN [log[i] EXCEPT !.is_sent = TRUE,
                                            !.sent_at = stamp[1],
                                            !.fcm_token = fcm_token[1]]
                        ELSE log[i])

\* C19: a fetched row whose owner has a token is pushed once with that
\* token; an accepted push is followed by the write of is_sent = true,
\* sent_at = now and the token used on that row alone, counted as sent; a
\* refused push is counted as failed and nothing is written, so the row is
\* still unsent.
C19_PushThenMark ==
    [][TokenRowIsPushed /\ PushedOnce /\ MarkedAfterSuccess]_vars

\* A finished run of two rows with tokens: one marked with the token used,
\* one refused by the gateway and still unsent.
C19_Witness ==
    /\ result[1] = Summary(2, 1, 1, "procesadas")
    /\ \E i, j \in DOMAIN log :
          /\ log[i].is_sent
          /\ log[i].sent_at /= None
          /\ log[i].fcm_token = Some(Device(log[i].user_id))
          /\ ~log[j].is_sent
          /\ log[j].fcm_token = None
          /\ log[j].user_id \in DOMAIN reg
          /\ ~Falsy(reg[log[j].user_id])

\* Where a run is: the rows before the current one are finished, the rows
\* after it are untouched, and the current row has had its lookup, its push
\* and its write in that order.
SequentialPosition ==
    pc[1] \in {"resolve", "send", "mark"} =>
        /\ todo[1] /= <<>>
        /\ Len(todo[1]) + sent_count[1] + failed_count[1] = fetched[1]
        /\ calls[1].lookups = sent_count[1] + failed_count[1]
                               + (IF pc[1] = "resolve" THEN 0 ELSE 1)
        /\ calls[1].writes = sent_count[1]
        /\ calls[1].sends >= calls[1].writes + (IF pc[1] = "mark" THEN 1 ELSE 0)
        /\ calls[1].sends <= calls[1].lookups - (IF pc[1] = "send" THEN 1 ELSE 0)

\* The steps of one row follow each other, the next row starts with its
\* lookup once the current row is finished, and a step makes at most one
\* gateway call.
StepOrder ==
    Stepped(1) =>
        /\ pc[1] = "resolve" => pc'[1] \in {"send", "resolve", "done"}
        /\ pc[1] = "send" => pc'[1] \in {"mark", "resolve", "done"}
        /\ pc[1] = "mark" => pc'[1] \in {"resolve", "done"}
        /\ (pc[1] \in {"resolve", "send", "mark"} /\ pc'[1] \in {"send", "mark"})
              => todo'[1] = todo[1]
        /\ (pc[1] \in {"resolve", "send", "mark"} /\ pc'[1] = "resolve")
              => todo'[1] = Tail(todo[1])
        /\ calls'[1].sends \in {0, calls[1].sends, calls[1].sends + 1}
        /\ calls'[1].sends = calls[1].sends + 1 => pc[1] = "send"
        /\ BagCardinality(gw') <= BagCardinality(gw) + 1

\* C20: one run handles its rows one after the other: lookup, push, write
\* on success, and only then the lookup of the next row; it makes its pushes
\* one at a time.
C20_StrictlySequential == [][StepOrder /\ SequentialPosition']_vars

\* The second of three rows is about to be pushed; the first is finished.
C20_Witness ==
    /\ pc[1] = "send"
    /\ fetched[1] = 3
    /\ Len(todo[1]) = 2
    /\ sent_count[1] = 1
    /\ calls[1] = [lookups |-> 2, sends |-> 1, writes |-> 1]

\* C21: every row of a batch gets its own token lookup, and the row is
\* pushed to, or fails on, the token stored when that lookup is made,
\* whatever the token was for an earlier row of the same user.
C21_LookupPerRow ==
    [][(pc[1] = "resolve" /\ Stepped(1))
       => (/\ calls'[1].lookups = calls[1].lookups + 1
           /\ calls'[1].lookups = fetched[1] - Len(todo[1]) + 1
           /\ (faults' = faults /\ Head(todo[1]).user_id \in DOMAIN reg) =>
                 IF reg[Head(todo[1]).user_id] \in {None, Some("")}
                 THEN /\ failed_count'[1] = failed_count[1] + 1
                      /\ pc'[1] /= "send"
                      /\ UNCHANGED <<log, gw>>
                 ELSE /\ pc'[1] = "send"
                      /\ fcm_token'[1] = reg[Head(todo[1]).user_id])]_vars

\* Two rows of A delivered in one run, the first to the device A had then
\* and the second to the device A changed to in between.
C21_Witness ==
    /\ result[1] = Summary(2, 2, 0, "procesadas")
    /\ log[1].user_id = "A" /\ log[2].user_id = "A"
    /\ {log[1].fcm_token, log[2].fcm_token} = {Some("tA"), Some("tA2")}
    /\ BagIn(<<1, log[1].fcm_token[1]>>, gw)
    /\ BagIn(<<2, log[2].fcm_token[1]>>, gw)

\* The run that has just ended with a summary made result[1].sent writes,
\* stamped with the last readings of the clock: its writes are the rows
\* stamped from RunStart on, and the Store it started from is the log
\* without them.
RunStart == clock - result[1].sent

WrittenByRun == {i \in DOMAIN log :
                    log[i].sent_at /= None /\ log[i].sent_at[1] >= RunStart}

LogAtRunStart ==
    [i \in DOMAIN log |->
        IF i \in WrittenByRun
        THEN [log[i] EXCEPT !.is_sent = FALSE, !.sent_at = None, !.fcm_token = None]
        ELSE log[i]]

\* The orders in which a fetch may hand out the unsent rows of a log.
FetchOrders(l) ==
    LET ids == {i \in DOMAIN l : ~l[i].is_sent}
        k == IF Cardinality(ids) < 100 THEN Cardinality(ids) ELSE 100
    IN  {o \in [1..k -> ids] : \A i, j \in 1..k : i /= j => o[i] /= o[j]}

\* What one run makes of a Store: the rows in the order fetched, the
\* registrations, the ids the gateway accepts and the time of the first
\* write, and nothing else.
RECURSIVE Replay(_, _, _, _, _, _)
Replay(l, now, order, accepted, s, f) ==
    IF order = <<>>
    THEN [log |-> l, sent |-> s, failed |-> f]
    ELSE LET i == Head(order)
             u == l[i].user_id
         IN  IF u \notin DOMAIN reg \/ reg[u] \in {None, Some("")}
             THEN Replay(l, now, Tail(order), accepted, s, f + 1)
             ELSE IF i \in accepted
             THEN Replay([l EXCEPT ![i].is_sent = TRUE,
                                   ![i].sent_at = Some(now),
                                   ![i].fcm_token = reg[u]],
                         now + 1, Tail(order), accepted, s + 1, f)
             ELSE Replay(l, now, Tail(order), accepted, s, f + 1)

\* C22: the summary and the log a run ends with are those computed from the
\* Store the run started from, the order of the fetch, the gateway's answers
\* and the time of its writes alone, whatever earlier runs left behind.
C22_Stateless ==
    (pc[1] = "done" /\ result[1].status = "ok") =>
        \E order \in FetchOrders(LogAtRunStart) :
            LET out == Replay(LogAtRunStart, RunStart, order, WrittenByRun, 0, 0)
            IN  /\ out.log = log
                /\ result[1] = IF order = <<>>
                                THEN Summary(0, 0, 0, "no hay pendientes")
                                ELSE Summary(Len(order), out.sent, out.failed,
                                             "procesadas")

\* The second run over a Store: the first delivered one row and was refused
\* another, the second delivered that one.
C22_Witness ==
    /\ pc[1] = "done"
    /\ result[1] = Summary(1, 1, 0, "procesadas")
    /\ \E i \in DOMAIN log :
          log[i].is_sent /\ log[i].sent_at[1] < RunStart
    /\ faults = 0

\* C23: every row the dispatcher marked was accepted by the gateway for the
\* token written in the row, also after a run that a Store fault ended.
C23_MarkedWasDelivered ==
    \A i \in DOMAIN log :
        (log[i].is_sent /\ log[i].notification_type = "anticonceptivo") =>
            /\ log[i].fcm_token \notin {None, Some("")}
            /\ log[i].sent_at /= None
            /\ BagIn(<<i, log[i].fcm_token[1]>>, gw)

\* A run ended by a Store fault on its second write: row 1 is marked with
\* the device it went to, row 2 went out to the other device and is unmarked.
C23_Witness ==
    /\ result[1] = ServerError
    /\ DOMAIN log = {1, 2}
    /\ log[1].is_sent
    /\ log[1].fcm_token = Some("tA")
    /\ BagIn(<<1, "tA">>, gw)
    /\ ~log[2].is_sent
    /\ BagIn(<<2, "tA2">>, gw)

\* No write of a delivered row has been lost: every delivered row is marked
\* or is the row the run is about to mark.
NoWriteLost ==
    \A i \in DOMAIN log :
        Deliveries(i) >= 1 =>
            \/ log[i].is_sent
            \/ pc[1] = "mark" /\ Head(todo[1]).id = i

\* C24: with one invocation at a time, no step delivers a row a second time
\* unless the write that marks a delivered row has failed before.
C24_DeliveredAtMostOnce ==
    [][(NoWriteLost /\ \A i \in DOMAIN log : Deliveries(i) <= 1)
       => \A i \in DOMAIN log' : Deliveries(i)' <= 1]_vars

\* A second run after a run that a read fault ended: the row was refused
\* before and is delivered once.
C24_Witness ==
    /\ faults = 1
    /\ NoWriteLost
    /\ result[1] = Summary(1, 1, 0, "procesadas")
    /\ \E i \in DOMAIN log : log[i].is_sent /\ Deliveries(i) = 1
    /\ \E i \in DOMAIN log : ~log[i].is_sent


\* The row i is pending and its recipient has a device token.
Deliverable(i) ==
    /\ i \in DOMAIN log
    /\ ~log[i].is_sent
    /\ ~Falsy(reg[log[i].user_id])

\* C25: under repeated invocation, with no more pending rows than the fetch
\* ceiling, every pending row whose recipient has a token is marked
\* is_sent = true at some later time, unless the recipient loses the token.
C25_EventualDelivery ==
    \A i \in 1..MaxLiveRecords :
        Deliverable(i) ~> (i \in DOMAIN log /\ (log[i].is_sent \/ Falsy(reg[log[i].user_id])))

\* Two rows of token holders, both marked, the first one only by a second run
\* after the Store failed on a write.
C25_Witness ==
    /\ DOMAIN log = 1..2
    /\ \A i \in DOMAIN log : log[i].is_sent /\ ~Falsy(reg[log[i].user_id])
    /\ faults = 1
    /\ \E i \in DOMAIN log : Deliveries(i) = 2
    /\ result[1].status = "ok"

\* The pending rows whose recipient has no device token: they fail in every
\* run that fetches them.
Hopeless == {j \in PendingIds : Falsy(reg[log[j].user_id])}

\* More rows are pending than one run fetches, and the rows that fail in
\* every run fill a whole fetch.
Backlog ==
    /\ Cardinality(PendingIds) > Ceiling
    /\ Cardinality(Hopeless) >= Ceiling

\* C26: with more pending rows than the ceiling, of which a ceiling's worth
\* fail in every run, a pending row whose recipient has a token is marked
\* sent after finitely many runs.
C26_NoHeadOfLineBlocking ==
    \A i \in 1..MaxBatch :
        (Backlog /\ Deliverable(i)) ~> (i \in DOMAIN log /\ log[i].is_sent)

\* C27: the row that the test dispatch logs after a failed send is never
\* pushed by a dispatcher run: the gateway holds no accepted push of a row of
\* type "otro".
C27_TestRowNeverDispatched ==
    \A i \in DOMAIN log :
        log[i].notification_type = "otro" => Deliveries(i) = 0

\* C28: whenever a test dispatch whose push the gateway accepted ends, the
\* call answers success = true and the Store has gained a row of type "otro"
\* with is_sent = true.
C28_DeliveredTestIsLogged ==
    [][\A u \in Users :
          (/\ test_call[u].pc = "insert"
           /\ test_call[u].success
           /\ test_call'[u].pc = "idle") =>
              /\ test'.status = "ok"
              /\ test'.success
              /\ InsertedTestRow
              /\ log'[nextId].is_sent]_vars

\* C29: a history query writes nothing to the Store and calls no gateway;
\* the rows it answers with are rows of the user asked for, as stored, its
\* total is the number of that user's rows, and the length of the page is
\* what that number alone determines, whatever other users' rows exist.
C29_HistoryIsolation ==
    [][history' /= history =>
          /\ UNCHANGED <<log, nextId, reg, clock, gw>>
          /\ history'.status = "ok" =>
                LET user_id == history'.user_id
                    data == history'.notifications
                    own == {i \in DOMAIN log : log[i].user_id = user_id}
                    offset == (history'.page - 1) * history'.page_size
                    rest == Cardinality(own) - offset
                IN  /\ history'.total = Cardinality(own)
                    /\ \A k \in 1..Len(data) :
                          /\ data[k].user_id = user_id
                          /\ data[k].id \in own
                          /\ data[k] = log[data[k].id]
                    /\ Len(data) = Min(history'.page_size,
                                       IF rest > 0 THEN rest ELSE 0)]_vars

\* B asked for the history while the Store holds B's row and several rows of
\* A: the answer has B's row alone and total 1.
C29_Witness ==
    /\ history.status = "ok"
    /\ history.user_id = "B"
    /\ history.total = 1
    /\ Len(history.notifications) = 1
    /\ history.notifications[1].user_id = "B"
    /\ Cardinality({i \in DOMAIN log : log[i].user_id = "A"}) >= 2
    /\ gw = EmptyBag

\* No add_period_day call is between its select and its write for the key.
PeriodQuiet(user_id, period_date) ==
    \A p \in Workers :
        period_call[p].pc \in {"select", "write"} =>
            ~(/\ period_call[p].user_id = user_id
              /\ \E k \in DOMAIN period_call[p].dates :
                    period_call[p].dates[k] = period_date)

\* C30: period_days holds at most one row per (user_id, period_date), and
\* when no call for the key is in progress and a call for it has returned,
\* the row has the is_period_day of the call that returned last.
C30_Upsert ==
    \A user_id \in PeriodUsers, period_date \in Dates :
        LET rows == PeriodRowsOf(user_id, period_date)
            key == <<user_id, period_date>>
        IN  /\ Cardinality(rows) <= 1
            /\ (PeriodQuiet(user_id, period_date) /\ key \in DOMAIN period_last) =>
                  /\ Cardinality(rows) = 1
                  /\ \A i \in rows :
                        period_days[i].is_period_day = period_last[key]
====
